---------------------------- MODULE Spec2Model ----------------------------
(***************************************************************************)
(* A model of the ASTRA backend (yulo-dev/ai-system-capstone): the         *)
(* in-memory stores of app/database.py, the session and STT-task routes,   *)
(* the WebSocket endpoint of app/routes/websocket.py and the broadcaster   *)
(* of app/ws_manager.py.                                                   *)
(*                                                                         *)
(* The handlers run on one asyncio event loop: a handler runs without      *)
(* interruption from one `await` to the next.  Every action below is one   *)
(* such uninterrupted stretch of code.                                     *)
(***************************************************************************)
EXTENDS Integers, Sequences, FiniteSets, TLC

(***************************************************************************)
(* Bounds of the model.                                                    *)
(***************************************************************************)
MaxConn    == 2      \* WebSocket connections that may ever be opened
MaxPass    == 2      \* broadcast() calls that may be suspended at the same time
MaxTask    == 1      \* STT tasks that create_stt_task may allocate
MaxClock   == 3      \* largest value the wall clock reaches
MaxInbox   == 2      \* frames a client has been sent when no further send is started
MaxUpdates == 2      \* update_stt_task calls that one task may receive
MaxSamples == 3      \* telemetry samples that may be stored
MaxNote    == 2      \* notes that create_note may store

SessionIds == {1, 2} \* the identifiers create_session draws, lowest first
Conns      == 1..MaxConn
Passes     == 1..MaxPass
TaskIds    == 1..MaxTask

(***************************************************************************)
(* Program constants.                                                      *)
(***************************************************************************)
CLOSE_SESSION_NOT_FOUND == 4004
HTTP_OK        == 200
HTTP_CREATED   == 201
HTTP_NOT_FOUND == 404

EVENT_NOTE_CREATED     == "note.created"
EVENT_NOTE_UPDATED     == "note.updated"
EVENT_NOTE_DELETED     == "note.deleted"
EVENT_STT_TASK_CREATED == "stt.task.created"
EVENT_STT_TASK_DONE    == "stt.task.done"
EVENT_ERROR_OCCURRED   == "error.occurred"

STT_DEFAULT_ERROR == "STT transcription failed"

\* Python's None, and a present value, for an Optional field.
None      == <<>>
Some(v)   == <<v>>
IsNone(o) == o = <<>>
Val(o)    == o[1]

VARIABLES
    now,             \* the wall clock read by utcnow()
    sessions_db,     \* database.sessions_db: session id -> session dict
    stt_tasks_db,    \* database.stt_tasks_db: task id -> task dict
    ws_connections,  \* database.ws_connections: session id -> list of websockets
    conn,            \* per WebSocket: where its endpoint coroutine stands, and the socket
    inbox,           \* per WebSocket: the frames the client was sent, in order
    pass,            \* per slot: a broadcast() call suspended in `await ws.send_text`
    outcome,         \* the broadcast() call that ended in the last step, if one did
    pruned,          \* websockets whose send raised in a broadcast() that has returned
    status_log,      \* per STT task: the statuses it has been given, oldest first
    notes_db,        \* database.notes_db: note id -> note dict
    telemetry_db,    \* database.telemetry_db: the list of samples, in insertion order
    notes_made,      \* how many notes create_note has stored: their ids are 1..notes_made
    resp             \* the answer to the HTTP call made in the last step, if it was one

vars == <<now, sessions_db, stt_tasks_db, ws_connections, conn, inbox, pass, outcome,
          pruned, status_log, notes_db, telemetry_db, notes_made, resp>>

recordVars == <<notes_db, telemetry_db, notes_made>>
storeVars  == <<now, sessions_db, stt_tasks_db, status_log, recordVars>>
regVars   == <<ws_connections, conn, inbox, pass, pruned>>

(***************************************************************************)
(* Python list and dict helpers.                                           *)
(***************************************************************************)
Range(s) == {s[i] : i \in 1..Len(s)}

\* list.remove(x): deletes the first occurrence of x.
ListRemove(s, x) ==
    LET i == CHOOSE k \in 1..Len(s) : s[k] = x /\ \A j \in 1..(k-1) : s[j] # x
    IN  SubSeq(s, 1, i-1) \o SubSeq(s, i+1, Len(s))

\* del d[k]
DictDel(d, k) == [x \in DOMAIN d \ {k} |-> d[x]]

\* d[k] = v
DictSet(d, k, v) == [x \in DOMAIN d \cup {k} |-> IF x = k THEN v ELSE d[x]]

\* uuid4-based fresh identifiers: the lowest identifier not yet used.
FreshIn(ids, used) == CHOOSE i \in ids \ used : \A j \in ids \ used : i <= j

(***************************************************************************)
(* database.py                                                             *)
(***************************************************************************)
get_session(sid) == IF sid \in DOMAIN sessions_db THEN Some(sessions_db[sid]) ELSE None

utcnow == now

\* A handler that starts with the session check of another handler, never failing.
session_missing_never(sid) == FALSE

\* `if not get_session(sid): raise HTTPException(status_code=404, ...)`, the first
\* statement of every note and telemetry handler.
session_missing(sid) == IsNone(get_session(sid))

(***************************************************************************)
(* The initial state: empty stores, no connection, no broadcast running.   *)
(***************************************************************************)
NoMessage == [event |-> "", session_id |-> 0, data |-> [none |-> TRUE]]

\* A broadcast() call: pc is `sending` while it is suspended in send_text(cur), and
\* `returned` or `raised` in the record of its end.  idx is the position of the list
\* iterator, dead is dead_connections; entry (whether the session had a registry
\* entry at the call), startSet (the connections listed at the call) and got (those
\* whose send returned) record what happened.
IdlePass == [pc |-> "idle", sid |-> 0, message |-> NoMessage, idx |-> 0, cur |-> 0,
             dead |-> <<>>, stale |-> FALSE, entry |-> FALSE, got |-> {},
             startSet |-> {}]

NewConn == [pc |-> "new", sid |-> 0, alive |-> TRUE, close_code |-> None]

\* The answer to an HTTP call: the handler that was called, the status code and the
\* body.  An `async` handler answers once its broadcast() has returned; resp holds,
\* from the step of the call on, the answer that is then given.
NoResp == [op |-> "", args |-> <<>>, code |-> 0, body |-> <<>>]
Answer(op, args, code, body) == [op |-> op, args |-> args, code |-> code, body |-> body]
\* raise HTTPException(status_code=404, ...)
NotFound(op, args) == Answer(op, args, HTTP_NOT_FOUND, <<>>)

Init ==
    /\ now = 0
    /\ sessions_db = <<>>
    /\ stt_tasks_db = <<>>
    /\ ws_connections = <<>>
    /\ conn = [c \in Conns |-> NewConn]
    /\ inbox = [c \in Conns |-> <<>>]
    /\ pass = [p \in Passes |-> IdlePass]
    /\ outcome = IdlePass
    /\ pruned = {}
    /\ status_log = <<>>
    /\ notes_db = <<>>
    /\ telemetry_db = <<>>
    /\ notes_made = 0
    /\ resp = NoResp

\* The wall clock advances between handler steps.
Tick ==
    /\ now < MaxClock
    /\ now' = now + 1
    /\ outcome' = IdlePass
    /\ resp' = NoResp
    /\ UNCHANGED <<sessions_db, stt_tasks_db, status_log, recordVars, regVars>>

(***************************************************************************)
(* routes/sessions.py                                                      *)
(***************************************************************************)
Names        == {"Rover Test", "Arm Test"}
Descriptions == {"bench run"}
Statuses     == {"active", "ended"}          \* schemas.SessionStatus

Optional(S) == {None} \cup {Some(v) : v \in S}

SessionUpdates == [name : Optional(Names), description : Optional(Descriptions),
                   status : Optional(Statuses)]

\* POST /api/sessions
create_session(name, description) ==
    /\ DOMAIN sessions_db # SessionIds
    /\ LET session_id == FreshIn(SessionIds, DOMAIN sessions_db)
           new_session == [id |-> session_id, name |-> name,
                           description |-> description, status |-> "active",
                           started_at |-> utcnow, ended_at |-> None]
       IN  /\ sessions_db' = DictSet(sessions_db, session_id, new_session)
           /\ resp' = Answer("create_session", <<name, description>>, HTTP_OK, new_session)
    /\ outcome' = IdlePass
    /\ UNCHANGED <<now, stt_tasks_db, status_log, recordVars, regVars>>

\* update_session with a status that clears ended_at when the session is reactivated.
session_after_update_clearing(session, update) ==
    LET s1 == IF ~IsNone(update.name) THEN [session EXCEPT !.name = Val(update.name)]
              ELSE session
        s2 == IF ~IsNone(update.description)
              THEN [s1 EXCEPT !.description = update.description] ELSE s1
    IN  IF ~IsNone(update.status)
        THEN [s2 EXCEPT !.status = Val(update.status),
                        !.ended_at = IF Val(update.status) = "ended"
                                     THEN Some(utcnow) ELSE None]
        ELSE s2

\* The dict update_session leaves behind: only supplied fields are assigned, and a
\* status of `ended` stamps ended_at.
session_after_update(session, update) ==
    LET s1 == IF ~IsNone(update.name) THEN [session EXCEPT !.name = Val(update.name)]
              ELSE session
        s2 == IF ~IsNone(update.description)
              THEN [s1 EXCEPT !.description = update.description] ELSE s1
        s3 == IF ~IsNone(update.status)
              THEN [s2 EXCEPT !.status = Val(update.status)] ELSE s2
    IN  IF ~IsNone(update.status) /\ Val(update.status) = "ended"
        THEN [s3 EXCEPT !.ended_at = Some(utcnow)]
        ELSE s3

\* PATCH /api/sessions/{sid}; an unknown sid is answered 404 and changes nothing.
update_session(sid, update) ==
    /\ sessions_db' = IF IsNone(get_session(sid)) THEN sessions_db
                      ELSE DictSet(sessions_db, sid,
                                   session_after_update(sessions_db[sid], update))
    /\ resp' = IF IsNone(get_session(sid)) THEN NotFound("update_session", <<sid, update>>)
               ELSE Answer("update_session", <<sid, update>>, HTTP_OK,
                           session_after_update(sessions_db[sid], update))
    /\ outcome' = IdlePass
    /\ UNCHANGED <<now, stt_tasks_db, status_log, recordVars, regVars>>

NextSessions ==
    \/ Tick
    \/ \E n \in Names, d \in Optional(Descriptions) : create_session(n, d)
    \/ \E sid \in SessionIds, u \in SessionUpdates : update_session(sid, u)

SpecSessions == Init /\ [][NextSessions]_vars

(***************************************************************************)
(* The Subscription Registry: the statements of routes/websocket.py and    *)
(* ws_manager.py that change database.ws_connections, as functions of the  *)
(* registry.                                                               *)
(***************************************************************************)
Registered(reg, sid) == IF sid \in DOMAIN reg THEN Range(reg[sid]) ELSE {}

\* A registration that lists the websocket twice.
register_twice(reg, sid, ws) ==
    IF sid \notin DOMAIN reg THEN DictSet(reg, sid, <<ws, ws>>)
    ELSE [reg EXCEPT ![sid] = @ \o <<ws, ws>>]

\* A registration that inserts the websocket at the front of the session's list.
register_in_front(reg, sid, ws) ==
    IF sid \notin DOMAIN reg THEN DictSet(reg, sid, <<ws>>)
    ELSE [reg EXCEPT ![sid] = <<ws>> \o @]

\* websocket.py 44-46: create the session's list when absent, then append.
register(reg, sid, ws) ==
    IF sid \notin DOMAIN reg THEN DictSet(reg, sid, <<ws>>)
    ELSE [reg EXCEPT ![sid] = Append(@, ws)]

\* An endpoint exit that leaves the registry as it is.
unregister_never(reg, sid, ws) == reg

\* An endpoint exit that removes the websocket and keeps the session's entry.
unregister_keeping_entry(reg, sid, ws) ==
    IF sid \in DOMAIN reg /\ ws \in Range(reg[sid])
    THEN [reg EXCEPT ![sid] = ListRemove(reg[sid], ws)]
    ELSE reg

\* An endpoint exit that drops every connection of the session.
unregister_session(reg, sid, ws) ==
    IF sid \in DOMAIN reg /\ ws \in Range(reg[sid]) THEN DictDel(reg, sid) ELSE reg

\* websocket.py 64-68, the endpoint's `finally`: remove the websocket when it is
\* listed, and delete the session's entry when that empties the list.
unregister(reg, sid, ws) ==
    IF sid \in DOMAIN reg /\ ws \in Range(reg[sid])
    THEN LET rest == ListRemove(reg[sid], ws)
         IN  IF rest = <<>> THEN DictDel(reg, sid) ELSE [reg EXCEPT ![sid] = rest]
    ELSE reg

\* ws_manager.py 47-49: `ws_connections[session_id]` is subscripted once per dead
\* connection, so the loop raises KeyError when there is a dead connection and the
\* session's entry is gone.
prune_raises(reg, sid, dead) == dead # <<>> /\ sid \notin DOMAIN reg

RECURSIVE remove_dead(_, _)
remove_dead(list, dead) ==
    IF dead = <<>> THEN list
    ELSE remove_dead(IF Head(dead) \in Range(list) THEN ListRemove(list, Head(dead))
                     ELSE list,
                     Tail(dead))

\* A pruning step that forgets the dead connections.
prune_nothing(reg, sid, dead) == reg

\* ws_manager.py 47-51, when it does not raise: drop the dead connections that are
\* still listed, then delete the entry if its list is empty.
prune(reg, sid, dead) ==
    IF sid \notin DOMAIN reg THEN reg
    ELSE LET rest == remove_dead(reg[sid], dead)
         IN  IF rest = <<>> THEN DictDel(reg, sid) ELSE [reg EXCEPT ![sid] = rest]

\* A suspended broadcast() iterates over the list object it found in the registry.
\* Once the session's entry is deleted that object is empty and no longer the
\* registry's: a list created later under the same key is another object.
Detach(passes, reg, reg2) ==
    [p \in Passes |->
        IF passes[p].pc = "sending" /\ passes[p].sid \in DOMAIN reg \ DOMAIN reg2
        THEN [passes[p] EXCEPT !.stale = TRUE] ELSE passes[p]]

\* The list a suspended broadcast() is iterating over, as it is now.
IterList(ps) == IF ps.stale \/ ps.sid \notin DOMAIN ws_connections THEN <<>>
                ELSE ws_connections[ps.sid]

(***************************************************************************)
(* The socket of a connection.  `await ws.send_text(m)` writes the frame   *)
(* to the socket when it is called, so the client is sent frames in the    *)
(* order of the calls; the caller is then suspended, and the await ends    *)
(* later, returning if the socket is still open and raising if it is not.  *)
(* A closed socket takes no frame.                                         *)
(***************************************************************************)
Written(box, ws, frame) ==
    IF conn[ws].alive THEN [box EXCEPT ![ws] = Append(@, frame)] ELSE box

(***************************************************************************)
(* ws_manager.py: broadcast()                                              *)
(***************************************************************************)
Envelope(sid, event, data) == [event |-> event, session_id |-> sid, data |-> data]

\* ws_manager.py 29-30 with a missing entry raising instead of returning.
without_entry_raising(sid, event, data) ==
    [IdlePass EXCEPT !.pc = "raised", !.sid = sid, !.message = Envelope(sid, event, data)]

\* ws_manager.py 29-30: no entry for the session, broadcast() returns at once.
without_entry(sid, event, data) ==
    [IdlePass EXCEPT !.pc = "returned", !.sid = sid, !.message = Envelope(sid, event, data)]

\* A payload serialized anew for each recipient, from the note as it is stored at
\* the time of the send.
payload_per_recipient(ps) ==
    IF /\ ps.message.event \in {EVENT_NOTE_CREATED, EVENT_NOTE_UPDATED}
       /\ ps.message.data.id \in DOMAIN notes_db
    THEN [ps.message EXCEPT !.data = notes_db[ps.message.data.id]]
    ELSE ps.message

\* ws_manager.py 32-37: the payload is serialized once, before the loop; every
\* send_text of the call is given that string.
payload(ps) == ps.message

\* ws_manager.py 40-51: the `for` statement asks its list iterator for the next
\* websocket (index ps.idx, counted from 0) and calls send_text on it, where the
\* coroutine is suspended; once the iterator is exhausted the dead connections are
\* pruned, without another suspension, and broadcast() ends.
Continue(p, ps) ==
    LET list == IterList(ps)
    IN  IF ps.idx < Len(list)
        THEN /\ pass' = [pass EXCEPT ![p] = [ps EXCEPT !.cur = list[ps.idx + 1],
                                                       !.idx = ps.idx + 1]]
             /\ inbox' = Written(inbox, list[ps.idx + 1], payload(ps))
             /\ outcome' = IdlePass
             /\ UNCHANGED <<ws_connections, pruned>>
        ELSE IF prune_raises(ws_connections, ps.sid, ps.dead)
        THEN /\ pass' = [pass EXCEPT ![p] = IdlePass]
             /\ outcome' = [ps EXCEPT !.pc = "raised", !.cur = 0]
             /\ UNCHANGED <<ws_connections, inbox, pruned>>
        ELSE LET reg == prune(ws_connections, ps.sid, ps.dead)
             IN  /\ ws_connections' = reg
                 /\ pass' = Detach([pass EXCEPT ![p] = IdlePass], ws_connections, reg)
                 /\ outcome' = [ps EXCEPT !.pc = "returned", !.cur = 0]
                 /\ pruned' = pruned \cup Range(ps.dead)
                 /\ UNCHANGED inbox

\* No further broadcast is started for a session with a subscriber whose client
\* has been sent MaxInbox frames.
Room(sid) == \A ws \in Registered(ws_connections, sid) : Len(inbox[ws]) < MaxInbox

\* ws_manager.py 27-42: a call of broadcast(), up to its first suspension.  The
\* message is serialized here, once.
broadcast(sid, event, data) ==
    /\ \E p \in Passes : pass[p].pc = "idle"
    /\ Room(sid)
    /\ LET p == FreshIn(Passes, {q \in Passes : pass[q].pc # "idle"})
       IN  IF sid \notin DOMAIN ws_connections
           THEN /\ outcome' = without_entry(sid, event, data)
                /\ UNCHANGED <<ws_connections, inbox, pass, pruned>>
           ELSE Continue(p, [IdlePass EXCEPT !.pc = "sending", !.sid = sid,
                                 !.message = Envelope(sid, event, data),
                                 !.entry = TRUE,
                                 !.startSet = Range(ws_connections[sid])])

\* ws_manager.py 41-45: `await ws.send_text(message)` ends, by returning or by
\* raising (the websocket is then appended to dead_connections), and the loop
\* goes on.
broadcast_resume(p) ==
    /\ pass[p].pc = "sending"
    /\ LET ps == pass[p]
           ws == ps.cur
       IN  IF conn[ws].alive
           THEN Continue(p, [ps EXCEPT !.got = @ \cup {ws}])
           ELSE Continue(p, [ps EXCEPT !.dead = Append(@, ws)])
    /\ resp' = NoResp
    /\ UNCHANGED <<storeVars, conn>>

\* Any handler that publishes: a call of broadcast() for an existing session.
PublishEvents == {EVENT_NOTE_DELETED}

publish(sid, event) ==
    /\ ~IsNone(get_session(sid))
    /\ broadcast(sid, event, [id |-> 1])
    /\ resp' = NoResp
    /\ UNCHANGED <<storeVars, conn>>

\* ws_manager.py 54-59
broadcast_error(sid, message, source) ==
    broadcast(sid, EVENT_ERROR_OCCURRED, [message |-> message, source |-> source])

(***************************************************************************)
(* routes/stt.py                                                           *)
(***************************************************************************)
AudioChunks  == {"chunk_001"}
Transcripts  == {"move the arm"}
ErrorTexts   == {"", "whisper crashed"}
\* STTTaskUpdate.status is declared `str`: any string is accepted.
TaskStatuses == {"pending", "done", "failed", "cancelled"}

STTTaskUpdates == [status : TaskStatuses, transcript : Optional(Transcripts),
                   error : Optional(ErrorTexts)]

\* Python truthiness of an Optional[str]: None and "" are false.
Truthy(o) == ~IsNone(o) /\ Val(o) # ""

\* POST /api/sessions/{sid}/stt/tasks; an unknown sid is answered 404.
create_stt_task(sid, task) ==
    IF session_missing(sid)
    THEN /\ outcome' = IdlePass
         /\ resp' = NotFound("create_stt_task", <<sid, task>>)
         /\ UNCHANGED <<storeVars, regVars>>
    ELSE /\ DOMAIN stt_tasks_db # TaskIds
         /\ LET task_id  == FreshIn(TaskIds, DOMAIN stt_tasks_db)
                new_task == [id |-> task_id, session_id |-> sid,
                             audio_chunk_id |-> task.audio_chunk_id,
                             duration_seconds |-> task.duration_seconds,
                             status |-> "pending", transcript |-> None,
                             error |-> None, created_at |-> utcnow,
                             updated_at |-> utcnow]
            IN  /\ stt_tasks_db' = DictSet(stt_tasks_db, task_id, new_task)
                /\ status_log' = DictSet(status_log, task_id, <<"pending">>)
                /\ broadcast(sid, EVENT_STT_TASK_CREATED, new_task)
                /\ resp' = Answer("create_stt_task", <<sid, task>>, HTTP_CREATED, new_task)
         /\ UNCHANGED <<now, sessions_db, recordVars, conn>>

\* stt.py 115-118: every field of the update is assigned, supplied or not.
task_after_update(task, update) ==
    [task EXCEPT !.status = update.status, !.transcript = update.transcript,
                 !.error = update.error, !.updated_at = utcnow]

\* PUT /api/sessions/{sid}/stt/tasks/{tid}; an unknown sid, an unknown tid and a
\* task of another session are answered 404.
update_stt_task(sid, tid, update) ==
    IF \/ session_missing(sid)
       \/ tid \notin DOMAIN stt_tasks_db
       \/ stt_tasks_db[tid].session_id # sid
    THEN /\ outcome' = IdlePass
         /\ resp' = NotFound("update_stt_task", <<sid, tid, update>>)
         /\ UNCHANGED <<storeVars, regVars>>
    ELSE /\ Len(status_log[tid]) <= MaxUpdates
         /\ LET task == task_after_update(stt_tasks_db[tid], update)
            IN  /\ stt_tasks_db' = DictSet(stt_tasks_db, tid, task)
                /\ status_log' = [status_log EXCEPT ![tid] = Append(@, update.status)]
                /\ IF update.status = "done"
                   THEN broadcast(sid, EVENT_STT_TASK_DONE, task)
                   ELSE IF update.status = "failed"
                   THEN LET error_msg == IF Truthy(update.error) THEN Val(update.error)
                                         ELSE STT_DEFAULT_ERROR
                        IN  broadcast_error(sid, error_msg, "stt")
                   ELSE /\ outcome' = IdlePass
                        /\ UNCHANGED regVars
                /\ resp' = Answer("update_stt_task", <<sid, tid, update>>, HTTP_OK, task)
         /\ UNCHANGED <<now, sessions_db, recordVars, conn>>

\* The AI team's calls, with the updates of `updates`.
NextTasks(updates) ==
    \/ \E sid \in SessionIds,
          task \in [audio_chunk_id : AudioChunks, duration_seconds : {None}] :
           create_stt_task(sid, task)
    \/ \E sid \in SessionIds, tid \in TaskIds, u \in updates :
           update_stt_task(sid, tid, u)

(***************************************************************************)
(* Datetimes.  A datetime is an instant, and is naive (no tzinfo) or aware. *)
(* Comparisons in the handlers are made between aware datetimes only.      *)
(***************************************************************************)
Instants  == {1, 2}
Datetimes == [at : Instants, aware : BOOLEAN]

\* datetime.min.replace(tzinfo=utc): earlier than every other datetime.
DATETIME_MIN == [at |-> 0, aware |-> TRUE]

\* _to_aware(dt): None becomes datetime.min, a naive datetime is read as UTC.
to_aware(dt) ==
    IF IsNone(dt) THEN DATETIME_MIN
    ELSE IF ~Val(dt).aware THEN [Val(dt) EXCEPT !.aware = TRUE]
    ELSE Val(dt)

\* list.sort(key=..., reverse=...) is stable: an insertion sort over the elements
\* paired with their keys, which moves an element only past elements that the
\* order puts strictly after it.
RECURSIVE InsertSorted(_, _, _)
InsertSorted(sorted, x, reverse) ==
    IF sorted = <<>> THEN <<x>>
    ELSE LET last == sorted[Len(sorted)]
         IN  IF (IF reverse THEN x.key > last.key ELSE x.key < last.key)
             THEN Append(InsertSorted(SubSeq(sorted, 1, Len(sorted) - 1), x, reverse),
                         last)
             ELSE Append(sorted, x)

RECURSIVE StableSort(_, _)
StableSort(keyed, reverse) ==
    IF keyed = <<>> THEN <<>>
    ELSE InsertSorted(StableSort(SubSeq(keyed, 1, Len(keyed) - 1), reverse),
                      keyed[Len(keyed)], reverse)

SortedBy(list, key(_), reverse) ==
    LET keyed  == [i \in 1..Len(list) |-> [key |-> key(list[i]), item |-> list[i]]]
        sorted == StableSort(keyed, reverse)
    IN  [i \in 1..Len(list) |-> sorted[i].item]

\* [x for x in list if keep(x)]
Filter(list, keep(_)) == SelectSeq(list, keep)

(***************************************************************************)
(* routes/telemetry.py                                                     *)
(***************************************************************************)
Channels == {"voltage", "current"}
Values   == {5}
Units    == {"V"}

TelemetryCreates == [timestamp : Datetimes, channel : Channels, value : Values,
                     unit : {None}]

\* database.get_telemetry_by_session
get_telemetry_by_session(sid) == Filter(telemetry_db, LAMBDA t : t.session_id = sid)

\* A sample stored without its owner.
new_telemetry_unowned(telemetry_id, sid, telemetry) ==
    [id |-> telemetry_id, session_id |-> 0,
     timestamp |-> to_aware(Some(telemetry.timestamp)),
     channel |-> telemetry.channel, value |-> telemetry.value, unit |-> telemetry.unit]

\* telemetry.py 46-53
new_telemetry(telemetry_id, sid, telemetry) ==
    [id |-> telemetry_id, session_id |-> sid,
     timestamp |-> to_aware(Some(telemetry.timestamp)),
     channel |-> telemetry.channel, value |-> telemetry.value, unit |-> telemetry.unit]

\* A store that keeps the newest sample only.
telemetry_after_create_replacing(db, sample) == <<sample>>

\* telemetry.py 46: telemetry_db.append(new_telemetry)
telemetry_after_create(db, sample) == Append(db, sample)

\* POST /api/sessions/{sid}/telemetry
create_telemetry(sid, telemetry) ==
    /\ IF session_missing(sid)
       THEN /\ resp' = NotFound("create_telemetry", <<sid, telemetry>>)
            /\ UNCHANGED telemetry_db
       ELSE /\ Len(telemetry_db) < MaxSamples
            /\ LET sample == new_telemetry(Len(telemetry_db) + 1, sid, telemetry)
               IN  /\ telemetry_db' = telemetry_after_create(telemetry_db, sample)
                   /\ resp' = Answer("create_telemetry", <<sid, telemetry>>, HTTP_OK,
                                     sample)
    /\ outcome' = IdlePass
    /\ UNCHANGED <<now, sessions_db, stt_tasks_db, status_log, notes_db, notes_made,
                   regVars>>

\* sort(key=lambda x: _to_aware(x["timestamp"]), reverse=True)
NewestFirst(list) == SortedBy(list, LAMBDA x : to_aware(Some(x.timestamp)).at, TRUE)

\* telemetry.py 127-139: what GET /api/sessions/{sid}/telemetry/latest answers.
latest_telemetry(sid, channel) ==
    IF session_missing(sid)
    THEN NotFound("get_latest_telemetry", <<sid, channel>>)
    ELSE LET results == Filter(get_telemetry_by_session(sid),
                               LAMBDA t : t.channel = channel)
         IN  IF results = <<>>
             THEN NotFound("get_latest_telemetry", <<sid, channel>>)
             ELSE Answer("get_latest_telemetry", <<sid, channel>>, HTTP_OK,
                         NewestFirst(results)[1])

\* GET /api/sessions/{sid}/telemetry/latest?channel=...
get_latest_telemetry(sid, channel) ==
    /\ resp' = latest_telemetry(sid, channel)
    /\ outcome' = IdlePass
    /\ UNCHANGED <<storeVars, regVars>>

\* A batch insert that stores the samples last first.
telemetry_after_batch_reversed(db, sid, batch) ==
    db \o [i \in 1..Len(batch) |->
              new_telemetry(Len(db) + i, sid, batch[Len(batch) + 1 - i])]

\* telemetry.py 68-78: one append per element of batch.data, in list order.
telemetry_after_batch(db, sid, batch) ==
    db \o [i \in 1..Len(batch) |-> new_telemetry(Len(db) + i, sid, batch[i])]

\* POST /api/sessions/{sid}/telemetry/batch: the samples of the batch are appended
\* in their order.
create_telemetry_batch(sid, batch) ==
    /\ IF session_missing(sid)
       THEN /\ resp' = NotFound("create_telemetry_batch", <<sid, batch>>)
            /\ UNCHANGED telemetry_db
       ELSE /\ Len(telemetry_db) + Len(batch) <= MaxSamples
            /\ telemetry_db' = telemetry_after_batch(telemetry_db, sid, batch)
            /\ resp' = Answer("create_telemetry_batch", <<sid, batch>>, HTTP_OK,
                              [created |-> Len(batch)])
    /\ outcome' = IdlePass
    /\ UNCHANGED <<now, sessions_db, stt_tasks_db, status_log, notes_db, notes_made,
                   regVars>>

\* list[:limit]: the first `limit` elements, or all but the last -limit of them
\* when limit is negative.
UpTo(list, limit) ==
    IF limit >= 0
    THEN SubSeq(list, 1, IF limit < Len(list) THEN limit ELSE Len(list))
    ELSE SubSeq(list, 1, Len(list) + limit)

\* telemetry.py 95-112: what GET /api/sessions/{sid}/telemetry answers.
list_telemetry_answer(sid, channel, from_time, to_time, limit) ==
    LET args == <<sid, channel, from_time, to_time, limit>>
        r0 == get_telemetry_by_session(sid)
        r1 == IF Truthy(channel) THEN Filter(r0, LAMBDA t : t.channel = Val(channel))
              ELSE r0
        r2 == IF ~IsNone(from_time)
              THEN Filter(r1, LAMBDA t : to_aware(Some(t.timestamp)).at
                                             >= to_aware(from_time).at)
              ELSE r1
        r3 == IF ~IsNone(to_time)
              THEN Filter(r2, LAMBDA t : to_aware(Some(t.timestamp)).at
                                             <= to_aware(to_time).at)
              ELSE r2
    IN  IF session_missing(sid) THEN NotFound("list_telemetry", args)
        ELSE Answer("list_telemetry", args, HTTP_OK, UpTo(NewestFirst(r3), limit))

\* A query that sorts the store's own list instead of a copy.
list_telemetry_sorting_store(sid, channel, from_time, to_time, limit) ==
    /\ resp' = list_telemetry_answer(sid, channel, from_time, to_time, limit)
    /\ telemetry_db' = NewestFirst(telemetry_db)
    /\ outcome' = IdlePass
    /\ UNCHANGED <<now, sessions_db, stt_tasks_db, status_log, notes_db, notes_made,
                   regVars>>

\* GET /api/sessions/{sid}/telemetry
list_telemetry(sid, channel, from_time, to_time, limit) ==
    /\ resp' = list_telemetry_answer(sid, channel, from_time, to_time, limit)
    /\ outcome' = IdlePass
    /\ UNCHANGED <<storeVars, regVars>>

\* The channel names in the order sorted() gives them.
ChannelOrder == <<"current", "voltage">>

\* telemetry.py 148-153: what GET /api/sessions/{sid}/telemetry/channels answers.
list_channels_answer(sid) ==
    LET present == {t.channel : t \in Range(get_telemetry_by_session(sid))}
    IN  IF session_missing(sid) THEN NotFound("list_channels", <<sid>>)
        ELSE Answer("list_channels", <<sid>>, HTTP_OK,
                    [channels |-> SelectSeq(ChannelOrder, LAMBDA c : c \in present)])

\* GET /api/sessions/{sid}/telemetry/channels
list_channels(sid) ==
    /\ resp' = list_channels_answer(sid)
    /\ outcome' = IdlePass
    /\ UNCHANGED <<storeVars, regVars>>

NextTelemetry ==
    \/ create_session("Rover Test", None)
    \/ \E sid \in SessionIds, t \in TelemetryCreates : create_telemetry(sid, t)
    \/ \E sid \in SessionIds, ch \in Channels : get_latest_telemetry(sid, ch)

SpecTelemetry == Init /\ [][NextTelemetry]_vars

(***************************************************************************)
(* routes/notes.py                                                         *)
(***************************************************************************)
NoteTypes == {"observation", "command"}          \* schemas.NoteType
Speakers  == {"", "operator"}
Contents  == {"reading nominal", "reading corrected"}
TagLists  == {<<>>, <<"power">>}

NoteCreates == [timestamp : Datetimes, speaker : Optional(Speakers), content : Contents,
                type : NoteTypes, tags : TagLists, telemetry_snapshot : {None}]

NoteUpdates == [content : Optional(Contents), speaker : Optional(Speakers),
                type : Optional(NoteTypes), tags : Optional(TagLists)]

\* The note ids of a set, ascending: the order in which notes_db holds them, a dict
\* keeping its keys in the order of their insertion.
RECURSIVE Ascending(_)
Ascending(ids) ==
    IF ids = {} THEN <<>>
    ELSE LET m == CHOOSE i \in ids : \A j \in ids : i <= j
         IN  <<m>> \o Ascending(ids \ {m})

\* database.get_notes_by_session
get_notes_by_session(sid) ==
    LET ids == Ascending({i \in DOMAIN notes_db : notes_db[i].session_id = sid})
    IN  [k \in 1..Len(ids) |-> notes_db[ids[k]]]

\* A create_note that leaves the store as it is.
notes_after_create_dropping(db, note) == db

\* notes.py 69
notes_after_create(db, note) == DictSet(db, note.id, note)

\* POST /api/sessions/{sid}/notes
create_note(sid, note) ==
    IF session_missing(sid)
    THEN /\ resp' = NotFound("create_note", <<sid, note>>)
         /\ outcome' = IdlePass
         /\ UNCHANGED <<storeVars, regVars>>
    ELSE /\ notes_made < MaxNote
         /\ LET new_note == [id |-> notes_made + 1, session_id |-> sid,
                             timestamp |-> to_aware(Some(note.timestamp)),
                             speaker |-> note.speaker, content |-> note.content,
                             type |-> note.type, tags |-> note.tags,
                             telemetry_snapshot |-> note.telemetry_snapshot,
                             created_at |-> utcnow, updated_at |-> utcnow]
            IN  /\ notes_db' = notes_after_create(notes_db, new_note)
                /\ notes_made' = notes_made + 1
                /\ broadcast(sid, EVENT_NOTE_CREATED, new_note)
                /\ resp' = Answer("create_note", <<sid, note>>, HTTP_OK, new_note)
         /\ UNCHANGED <<now, sessions_db, stt_tasks_db, status_log, telemetry_db, conn>>

\* sort(key=lambda x: _to_aware(x["timestamp"]))
OldestFirst(list) == SortedBy(list, LAMBDA x : to_aware(Some(x.timestamp)).at, FALSE)

\* notes.py 86-105: what GET /api/sessions/{sid}/notes answers.  A filter is applied
\* when its value is true in Python's sense.
list_notes_answer(sid, speaker, type, from_time, to_time) ==
    LET args == <<sid, speaker, type, from_time, to_time>>
        n0 == get_notes_by_session(sid)
        n1 == IF Truthy(speaker) THEN Filter(n0, LAMBDA n : n.speaker = speaker) ELSE n0
        n2 == IF ~IsNone(type) THEN Filter(n1, LAMBDA n : n.type = Val(type)) ELSE n1
        n3 == IF ~IsNone(from_time)
              THEN Filter(n2, LAMBDA n : to_aware(Some(n.timestamp)).at
                                             >= to_aware(from_time).at)
              ELSE n2
        n4 == IF ~IsNone(to_time)
              THEN Filter(n3, LAMBDA n : to_aware(Some(n.timestamp)).at
                                             <= to_aware(to_time).at)
              ELSE n3
    IN  IF session_missing(sid) THEN NotFound("list_notes", args)
        ELSE Answer("list_notes", args, HTTP_OK, OldestFirst(n4))

\* GET /api/sessions/{sid}/notes
list_notes(sid, speaker, type, from_time, to_time) ==
    /\ resp' = list_notes_answer(sid, speaker, type, from_time, to_time)
    /\ outcome' = IdlePass
    /\ UNCHANGED <<storeVars, regVars>>

\* notes.py 182-184, 201-203, 226-228: the note is unknown, or another session's.
note_missing(sid, note_id) ==
    note_id \notin DOMAIN notes_db \/ notes_db[note_id].session_id # sid

\* GET /api/sessions/{sid}/notes/{note_id}
get_note(sid, note_id) ==
    /\ resp' = IF session_missing(sid) \/ note_missing(sid, note_id)
               THEN NotFound("get_note", <<sid, note_id>>)
               ELSE Answer("get_note", <<sid, note_id>>, HTTP_OK, notes_db[note_id])
    /\ outcome' = IdlePass
    /\ UNCHANGED <<storeVars, regVars>>

\* An update that assigns every field, supplied or not.
note_after_update_overwriting(note, update) ==
    [note EXCEPT !.content = IF IsNone(update.content) THEN "" ELSE Val(update.content),
                 !.speaker = update.speaker,
                 !.type = IF IsNone(update.type) THEN "observation" ELSE Val(update.type),
                 !.tags = IF IsNone(update.tags) THEN <<>> ELSE Val(update.tags),
                 !.updated_at = utcnow]

\* notes.py 205-214: only the supplied fields are assigned; updated_at always is.
note_after_update(note, update) ==
    LET n1 == IF ~IsNone(update.content)
              THEN [note EXCEPT !.content = Val(update.content)] ELSE note
        n2 == IF ~IsNone(update.speaker) THEN [n1 EXCEPT !.speaker = update.speaker]
              ELSE n1
        n3 == IF ~IsNone(update.type) THEN [n2 EXCEPT !.type = Val(update.type)] ELSE n2
        n4 == IF ~IsNone(update.tags) THEN [n3 EXCEPT !.tags = Val(update.tags)] ELSE n3
    IN  [n4 EXCEPT !.updated_at = utcnow]

\* PUT /api/sessions/{sid}/notes/{note_id}
update_note(sid, note_id, update) ==
    IF session_missing(sid) \/ note_missing(sid, note_id)
    THEN /\ resp' = NotFound("update_note", <<sid, note_id, update>>)
         /\ outcome' = IdlePass
         /\ UNCHANGED <<storeVars, regVars>>
    ELSE /\ LET note == note_after_update(notes_db[note_id], update)
            IN  /\ notes_db' = DictSet(notes_db, note_id, note)
                /\ broadcast(sid, EVENT_NOTE_UPDATED, note)
                /\ resp' = Answer("update_note", <<sid, note_id, update>>, HTTP_OK, note)
         /\ UNCHANGED <<now, sessions_db, stt_tasks_db, status_log, telemetry_db,
                        notes_made, conn>>

\* A delete_note that leaves the store as it is.
notes_after_delete_keeping(db, note_id) == db

\* notes.py 230
notes_after_delete(db, note_id) == DictDel(db, note_id)

\* DELETE /api/sessions/{sid}/notes/{note_id}
delete_note(sid, note_id) ==
    IF session_missing(sid) \/ note_missing(sid, note_id)
    THEN /\ resp' = NotFound("delete_note", <<sid, note_id>>)
         /\ outcome' = IdlePass
         /\ UNCHANGED <<storeVars, regVars>>
    ELSE /\ notes_db' = notes_after_delete(notes_db, note_id)
         /\ broadcast(sid, EVENT_NOTE_DELETED, [id |-> note_id])
         /\ resp' = Answer("delete_note", <<sid, note_id>>, HTTP_OK,
                           [message |-> <<"Note ", note_id, " deleted">>])
         /\ UNCHANGED <<now, sessions_db, stt_tasks_db, status_log, telemetry_db,
                        notes_made, conn>>

ExportFormats == {"markdown", "json"}

\* notes.py 151-170: the section a note gets in the Markdown export.  A speaker
\* that is None or empty is written `Unknown`; the tags line is written when the
\* list is not empty.
export_section(note) ==
    [time    |-> note.timestamp.at,
     speaker |-> IF Truthy(note.speaker) THEN Val(note.speaker) ELSE "Unknown",
     content |-> note.content,
     tags    |-> IF note.tags # <<>> THEN Some(note.tags) ELSE None]

\* notes.py 119-173: what GET /api/sessions/{sid}/notes/export answers.  Any
\* format but `json` gives Markdown.
export_notes_answer(sid, format) ==
    IF session_missing(sid) THEN NotFound("export_notes", <<sid, format>>)
    ELSE LET session == sessions_db[sid]
             notes   == OldestFirst(get_notes_by_session(sid))
         IN  IF format = "json"
             THEN Answer("export_notes", <<sid, format>>, HTTP_OK,
                         [media_type |-> "application/json", session_id |-> sid,
                          session_name |-> session.name, exported_at |-> utcnow,
                          notes |-> notes])
             ELSE Answer("export_notes", <<sid, format>>, HTTP_OK,
                         [media_type |-> "text/markdown", title |-> session.name,
                          session_id |-> sid, started |-> session.started_at,
                          status |-> session.status,
                          sections |-> [i \in 1..Len(notes) |->
                                           export_section(notes[i])]])

\* GET /api/sessions/{sid}/notes/export
export_notes(sid, format) ==
    /\ resp' = export_notes_answer(sid, format)
    /\ outcome' = IdlePass
    /\ UNCHANGED <<storeVars, regVars>>

NoteIds == 1..MaxNote

\* Notes that differ in what list_notes filters on, and the queries over them.
QueryNoteCreates == {n \in NoteCreates : /\ n.content = "reading nominal"
                                         /\ n.tags = <<>> /\ n.timestamp.aware}
QueryFrom  == Optional({[at |-> 2, aware |-> FALSE]})
QueryTo    == Optional({[at |-> 1, aware |-> TRUE]})

NextNoteQueries ==
    \/ create_session("Rover Test", None)
    \/ \E sid \in SessionIds, note \in QueryNoteCreates : create_note(sid, note)
    \/ \E sid \in SessionIds, speaker \in Optional(Speakers),
          type \in Optional({"command"}), from_time \in QueryFrom, to_time \in QueryTo :
           list_notes(sid, speaker, type, from_time, to_time)

SpecNoteQueries == Init /\ [][NextNoteQueries]_vars

\* The telemetry store written sample by sample and in batches, and read by every
\* telemetry query, with limits below, at and above the number of matches.
StoreSamples == {t \in TelemetryCreates :
                     \/ t.timestamp = [at |-> 1, aware |-> TRUE]
                     \/ t.timestamp = [at |-> 2, aware |-> FALSE] /\ t.channel = "voltage"}
StoreBatches == {<<>>} \cup {<<a, b>> : a, b \in {t \in StoreSamples : t.channel = "voltage"}}
QueryChannels == Optional({"voltage"})
QueryLimits  == {-1, 0, 2}

NextTelemetryStore ==
    \/ create_session("Rover Test", None)
    \/ \E sid \in SessionIds, t \in StoreSamples : create_telemetry(sid, t)
    \/ \E sid \in SessionIds, batch \in StoreBatches : create_telemetry_batch(sid, batch)
    \/ \E sid \in SessionIds, ch \in QueryChannels, from_time \in QueryFrom,
          to_time \in QueryTo, limit \in QueryLimits :
           list_telemetry(sid, ch, from_time, to_time, limit)
    \/ \E sid \in SessionIds, ch \in Channels : get_latest_telemetry(sid, ch)
    \/ \E sid \in SessionIds : list_channels(sid)

SpecTelemetryStore == Init /\ [][NextTelemetryStore]_vars

\* The note store under creations, edits and deletions, while the clock advances.
\* No client is connected.
StoreNoteCreates == {n \in QueryNoteCreates : /\ n.timestamp.at = 1 /\ IsNone(n.speaker)
                                              /\ n.type = "observation"}
StoreNoteUpdates ==
    {u \in [content : Optional({"reading corrected"}), speaker : Optional({"operator"}),
            type : Optional({"command"}), tags : Optional({<<"power">>})] :
         \/ IsNone(u.speaker) /\ IsNone(u.type) /\ IsNone(u.tags)
         \/ ~IsNone(u.content) /\ ~IsNone(u.speaker) /\ ~IsNone(u.type) /\ ~IsNone(u.tags)}

NextNoteStore ==
    \/ Tick
    \/ create_session("Rover Test", None)
    \/ \E sid \in SessionIds, note \in StoreNoteCreates : create_note(sid, note)
    \/ \E sid \in SessionIds, id \in NoteIds, u \in StoreNoteUpdates :
           update_note(sid, id, u)
    \/ \E sid \in SessionIds, id \in NoteIds : delete_note(sid, id)
    \/ \E sid \in SessionIds, id \in NoteIds : get_note(sid, id)
    \/ \E sid \in SessionIds : list_notes(sid, None, None, None, None)

SpecNoteStore == Init /\ [][NextNoteStore]_vars

(***************************************************************************)
(* routes/sessions.py: the read operations                                 *)
(***************************************************************************)
\* sessions.py 55-60: sessions_db.values(), in the order of their creation, sorted
\* by started_at, newest first.
list_sessions_answer ==
    LET ids == Ascending(DOMAIN sessions_db)
    IN  Answer("list_sessions", <<>>, HTTP_OK,
               SortedBy([i \in 1..Len(ids) |-> sessions_db[ids[i]]],
                        LAMBDA x : x.started_at, TRUE))

\* GET /api/sessions
list_sessions ==
    /\ resp' = list_sessions_answer
    /\ outcome' = IdlePass
    /\ UNCHANGED <<storeVars, regVars>>

\* GET /api/sessions/{sid}
get_session_by_id(sid) ==
    /\ resp' = IF IsNone(get_session(sid)) THEN NotFound("get_session_by_id", <<sid>>)
               ELSE Answer("get_session_by_id", <<sid>>, HTTP_OK, sessions_db[sid])
    /\ outcome' = IdlePass
    /\ UNCHANGED <<storeVars, regVars>>

(***************************************************************************)
(* routes/stt.py: the read operations                                      *)
(***************************************************************************)
\* database.get_stt_tasks_by_session: the session's tasks in the order of the
\* dict, which is the order of their creation.
get_stt_tasks_by_session(sid) ==
    LET ids == Ascending({tid \in DOMAIN stt_tasks_db :
                              stt_tasks_db[tid].session_id = sid})
    IN  [i \in 1..Len(ids) |-> stt_tasks_db[ids[i]]]

\* stt.py 74-79: what GET /api/sessions/{sid}/stt/tasks answers.
list_stt_tasks_answer(sid) ==
    IF session_missing(sid) THEN NotFound("list_stt_tasks", <<sid>>)
    ELSE Answer("list_stt_tasks", <<sid>>, HTTP_OK,
                SortedBy(get_stt_tasks_by_session(sid), LAMBDA x : x.created_at, TRUE))

\* GET /api/sessions/{sid}/stt/tasks
list_stt_tasks(sid) ==
    /\ resp' = list_stt_tasks_answer(sid)
    /\ outcome' = IdlePass
    /\ UNCHANGED <<storeVars, regVars>>

\* GET /api/sessions/{sid}/stt/tasks/{tid}
get_stt_task(sid, tid) ==
    /\ resp' = IF \/ session_missing(sid)
                  \/ tid \notin DOMAIN stt_tasks_db
                  \/ stt_tasks_db[tid].session_id # sid
               THEN NotFound("get_stt_task", <<sid, tid>>)
               ELSE Answer("get_stt_task", <<sid, tid>>, HTTP_OK, stt_tasks_db[tid])
    /\ outcome' = IdlePass
    /\ UNCHANGED <<storeVars, regVars>>

(***************************************************************************)
(* routes/websocket.py: websocket_endpoint(), one coroutine per connection *)
(*                                                                         *)
(* The endpoint is suspended in accept(), in the send of `connected`, in   *)
(* receive_text() and in the send of `pong`.  None of these awaits reads   *)
(* or writes shared state when it ends normally, so the model keeps one    *)
(* state, `open`, for a registered endpoint: it stands for all of them,    *)
(* and ws_exit is the ending of any of them by an exception.               *)
(***************************************************************************)
Connected(sid) == [event |-> "connected", session_id |-> sid,
                   data |-> [message |-> <<"Connected to session ", sid>>]]
Pong == [text |-> "pong"]

\* A confirmation that goes to every connection listed for the session.
greet_session(box, reg, ws, sid) ==
    [c \in Conns |-> IF c \in Registered(reg, sid) /\ conn[c].alive
                     THEN Append(box[c], Connected(sid)) ELSE box[c]]

\* A confirmation that is not written in the step that registers the websocket:
\* the endpoint is suspended between the registration and the send.
greet_deferred(box, reg, ws, sid) == box

\* websocket.py 49-53: the confirmation is sent on the new websocket.
greet(box, reg, ws, sid) == Written(box, ws, Connected(sid))

\* An endpoint that accepts a connection for any session id.
endpoint_admits_any(sid) == TRUE

\* websocket.py 36-38: the session must exist.
endpoint_admits(sid) == ~IsNone(get_session(sid))

\* websocket.py 36-53: the endpoint starts.  For an unknown session it closes the
\* websocket with 4004 and returns.  Otherwise it awaits accept(): if that raises
\* (the client left) the endpoint ends, outside its `try`, with nothing
\* registered; if it returns, the websocket is registered and `connected` is sent.
ws_connect(ws, sid, accepted) ==
    /\ conn[ws].pc = "new"
    /\ \A k \in Conns : conn[k].pc = "new" => ws <= k
    /\ IF ~endpoint_admits(sid)
       THEN /\ accepted
            /\ conn' = [conn EXCEPT ![ws] = [pc |-> "rejected", sid |-> sid,
                            alive |-> FALSE,
                            close_code |-> Some(CLOSE_SESSION_NOT_FOUND)]]
            /\ UNCHANGED <<ws_connections, inbox>>
       ELSE IF ~accepted
       THEN /\ conn' = [conn EXCEPT ![ws] = [@ EXCEPT !.pc = "closed", !.sid = sid,
                                                     !.alive = FALSE]]
            /\ UNCHANGED <<ws_connections, inbox>>
       ELSE /\ ws_connections' = register(ws_connections, sid, ws)
            /\ inbox' = greet(inbox, register(ws_connections, sid, ws), ws, sid)
            /\ conn' = [conn EXCEPT ![ws] = [@ EXCEPT !.pc = "open", !.sid = sid]]
    /\ outcome' = IdlePass
    /\ resp' = NoResp
    /\ UNCHANGED <<storeVars, pass, pruned>>

\* An endpoint that answers every text frame with `pong`.
ws_receive_any(ws, data) ==
    /\ conn[ws].pc = "open"
    /\ conn[ws].alive
    /\ Len(inbox[ws]) < MaxInbox
    /\ inbox' = Written(inbox, ws, Pong)
    /\ outcome' = IdlePass
    /\ resp' = NoResp
    /\ UNCHANGED <<storeVars, ws_connections, conn, pass, pruned>>

\* websocket.py 55-58: a text frame arrives; `ping` is answered with `pong`.
ws_receive(ws, data) ==
    /\ conn[ws].pc = "open"
    /\ conn[ws].alive
    /\ IF data = "ping"
       THEN /\ Len(inbox[ws]) < MaxInbox
            /\ inbox' = Written(inbox, ws, Pong)
       ELSE UNCHANGED inbox
    /\ outcome' = IdlePass
    /\ resp' = NoResp
    /\ UNCHANGED <<storeVars, ws_connections, conn, pass, pruned>>

\* websocket.py 60-68: the pending receive or send raises (WebSocketDisconnect, a
\* protocol error, any other exception) or the task is cancelled; the `finally`
\* unregisters the websocket, the endpoint returns and the server closes the socket.
ws_exit(ws) ==
    /\ conn[ws].pc = "open"
    /\ LET reg == unregister(ws_connections, conn[ws].sid, ws)
       IN  /\ ws_connections' = reg
           /\ pass' = Detach(pass, ws_connections, reg)
    /\ conn' = [conn EXCEPT ![ws].pc = "closed", ![ws].alive = FALSE]
    /\ outcome' = IdlePass
    /\ resp' = NoResp
    /\ UNCHANGED <<storeVars, inbox, pruned>>

\* The client goes away, or the network does: the socket takes no more frames.
\* The endpoint learns of it when its pending await raises.
client_drop(ws) ==
    /\ conn[ws].pc = "open"
    /\ conn[ws].alive
    /\ conn' = [conn EXCEPT ![ws].alive = FALSE]
    /\ outcome' = IdlePass
    /\ resp' = NoResp
    /\ UNCHANGED <<storeVars, ws_connections, inbox, pass, pruned>>

\* The endpoints, with clients that send the text frames of `inbound`.
NextEndpoint(inbound) ==
    \/ \E ws \in Conns, sid \in SessionIds, accepted \in BOOLEAN :
           ws_connect(ws, sid, accepted)
    \/ \E ws \in Conns, data \in inbound : ws_receive(ws, data)
    \/ \E ws \in Conns : ws_exit(ws)
    \/ \E ws \in Conns : client_drop(ws)

NextBroadcast == \E p \in Passes : broadcast_resume(p)

\* The registry under connects, exits, drops and publishes.  Clients send no
\* `ping` here: a pong goes to the pinging client alone and touches no shared state.
NextWs ==
    \/ create_session("Rover Test", None)
    \/ NextEndpoint({"hello"})
    \/ \E sid \in SessionIds, event \in PublishEvents : publish(sid, event)
    \/ NextBroadcast

SpecWs == Init /\ [][NextWs]_vars

\* Clients that send `ping` and other text frames while events are published.
PingInbound == {"ping", "PING"}

NextPing ==
    \/ create_session("Rover Test", None)
    \/ NextEndpoint(PingInbound)
    \/ \E sid \in SessionIds, event \in PublishEvents : publish(sid, event)
    \/ NextBroadcast

SpecPing == Init /\ [][NextPing]_vars

\* Notes written, edited and deleted while clients subscribe and leave.
PublishedNoteUpdates == {u \in StoreNoteUpdates : ~IsNone(u.content) /\ IsNone(u.tags)}

NextNotes ==
    \/ create_session("Rover Test", None)
    \/ NextEndpoint({"hello"})
    \/ \E sid \in SessionIds, note \in StoreNoteCreates : create_note(sid, note)
    \/ \E sid \in SessionIds, id \in NoteIds, u \in PublishedNoteUpdates :
           update_note(sid, id, u)
    \/ \E sid \in SessionIds, id \in NoteIds : delete_note(sid, id)
    \/ NextBroadcast

SpecNotes == Init /\ [][NextNotes]_vars

\* Every note, telemetry and STT-task operation, called for sessions that exist and
\* for sessions that do not.  Clients subscribe to the first session; the writers
\* address the second, before it is created and after; the readers address both.
OneSample == [timestamp |-> [at |-> 1, aware |-> TRUE], channel |-> "voltage",
              value |-> 5, unit |-> None]
OneTask   == [audio_chunk_id |-> "chunk_001", duration_seconds |-> None]
OneUpdate == [status |-> "failed", transcript |-> None, error |-> None]

NextHandlers ==
    \/ create_session("Rover Test", None)
    \/ \E ws \in Conns : ws_connect(ws, 1, TRUE)
    \/ \E ws \in Conns : ws_exit(ws)
    \/ list_sessions
    \/ \E sid \in SessionIds :
           \/ get_session_by_id(sid)
           \/ list_notes(sid, None, None, None, None)
           \/ \E format \in ExportFormats : export_notes(sid, format)
           \/ \E id \in NoteIds : get_note(sid, id)
           \/ list_telemetry(sid, None, None, None, 1)
           \/ get_latest_telemetry(sid, "voltage")
           \/ list_channels(sid)
           \/ list_stt_tasks(sid)
           \/ \E tid \in TaskIds : get_stt_task(sid, tid)
    \/ \E sid \in {2} :
           \/ \E note \in StoreNoteCreates : create_note(sid, note)
           \/ \E id \in NoteIds, u \in PublishedNoteUpdates : update_note(sid, id, u)
           \/ \E id \in NoteIds : delete_note(sid, id)
           \/ \E t \in {x \in StoreSamples : x.channel = "voltage"} :
                  create_telemetry(sid, t)
           \/ create_telemetry_batch(sid, <<OneSample, OneSample>>)
           \/ create_stt_task(sid, OneTask)
           \/ \E tid \in TaskIds : update_stt_task(sid, tid, OneUpdate)

SpecHandlers == Init /\ [][NextHandlers]_vars

\* The task store alone: no client ever connects, so every publish finds no entry.
NextTaskStore ==
    \/ Tick
    \/ create_session("Rover Test", None)
    \/ NextTasks(STTTaskUpdates)

SpecTasks == Init /\ [][NextTaskStore]_vars

\* Transcription results arriving while clients subscribe and leave.
DoneUpdates == {u \in STTTaskUpdates : u.status = "done" /\ ~IsNone(u.transcript)
                                        /\ IsNone(u.error)}

NextStt ==
    \/ create_session("Rover Test", None)
    \/ NextEndpoint({"hello"})
    \/ NextTasks(DoneUpdates)
    \/ NextBroadcast

SpecStt == Init /\ [][NextStt]_vars

(***************************************************************************)
(* Claims about the broadcaster and the endpoint, checked under SpecWs.    *)
(***************************************************************************)
AllRegistered == UNION {Range(ws_connections[sid]) : sid \in DOMAIN ws_connections}

\* The step calls send_text from broadcast() slot p.
SendCalled(p) ==
    /\ pass'[p].pc = "sending"
    /\ pass[p].pc # "sending" \/ pass'[p].idx # pass[p].idx

\* C1: broadcast() never raises: no call of it ends with an exception, whatever
\* the endpoints and the sockets did while it was suspended.
C1_BroadcastNeverRaises == outcome.pc # "raised"

\* C2: when a publish pass has returned, every connection that was listed for the
\* session when the pass started and is still listed, with its socket open (so it
\* was listed and able to receive all through the pass), had its send_text called
\* and returning.
C2_StandingConnectionsAreSent ==
    outcome.pc = "returned" =>
        \A ws \in outcome.startSet :
            (ws \in Registered(ws_connections, outcome.sid) /\ conn[ws].alive)
                => ws \in outcome.got

\* C3: a connection whose send raised during a publish is not in the session's
\* registry entry when that publish returns, nor at any time after, and once that
\* publish has returned no broadcast() calls send_text on it.
C3_FailedConnectionIsPruned ==
    /\ [](outcome.pc = "returned" =>
            \A ws \in Range(outcome.dead) :
                ws \notin Registered(ws_connections, outcome.sid))
    /\ [](pruned \cap AllRegistered = {})
    /\ [][\A p \in Passes : SendCalled(p) => pass'[p].cur \notin pruned]_vars

\* C3's case: a connection failed in a publish that returned, and a later publish
\* to the same session is under way.
C3_Witness ==
    \E ws \in pruned, p \in Passes :
        pass[p].pc = "sending" /\ pass[p].sid = conn[ws].sid

\* C5: a connection whose endpoint has ended is in no registry entry.
C5_EndedEndpointIsUnregistered ==
    \A ws \in Conns : conn[ws].pc = "closed" => ws \notin AllRegistered

\* C5's case: the endpoint of an accepted connection ended while a publish pass
\* that started with the connection listed was suspended.
C5_Witness ==
    \E ws \in Conns, p \in Passes :
        /\ conn[ws].pc = "closed" /\ inbox[ws] # <<>>
        /\ pass[p].pc = "sending" /\ ws \in pass[p].startSet

\* C9: a broadcast() for a session without registry entry returns normally, starts
\* no send, and leaves the whole registry and every client's frames as they were;
\* a pass is only ever started for a session that has an entry.
C9_PublishWithoutEntryIsNoop ==
    [][/\ (outcome'.pc # "idle" /\ ~outcome'.entry) =>
              /\ outcome'.pc = "returned"
              /\ outcome'.sid \notin DOMAIN ws_connections
              /\ ws_connections' = ws_connections
              /\ inbox' = inbox
              /\ pass' = pass
       /\ \A p \in Passes : (pass[p].pc = "idle" /\ pass'[p].pc = "sending") =>
              pass'[p].sid \in DOMAIN ws_connections
      ]_vars

\* C9's case: a publish to a session without entry has just returned while
\* another session has subscribers.
C9_Witness ==
    /\ outcome.pc = "returned" /\ ~outcome.entry
    /\ ws_connections # <<>>

\* C10: a connection attempt for a session id that does not exist ends rejected:
\* closed with 4004, registry and frames untouched; a rejected connection stays
\* rejected, was sent no frame and is in no registry entry.
C10_UnknownSessionIsRejected ==
    /\ [](\A ws \in Conns : conn[ws].pc = "rejected" =>
            /\ conn[ws].close_code = Some(CLOSE_SESSION_NOT_FOUND)
            /\ inbox[ws] = <<>>
            /\ ws \notin AllRegistered)
    /\ [][\A ws \in Conns :
            /\ (conn[ws].pc = "new" /\ conn'[ws].pc # "new"
                    /\ conn'[ws].sid \notin DOMAIN sessions_db) =>
                  /\ conn'[ws].pc = "rejected"
                  /\ ws_connections' = ws_connections
                  /\ inbox' = inbox
            /\ conn[ws].pc = "rejected" => conn'[ws] = conn[ws]
         ]_vars

\* C10's case: a rejected connection, its session id created since, with another
\* connection subscribed to that session.
C10_Witness ==
    \E ws \in Conns :
        /\ conn[ws].pc = "rejected"
        /\ Registered(ws_connections, conn[ws].sid) # {}

(***************************************************************************)
(* Claims about transcription results, checked under SpecStt and SpecTasks.*)
(***************************************************************************)
\* The stt.task.done frames for task tid among the frames a client was sent.
DoneFrames(box, tid) ==
    SelectSeq(box, LAMBDA f : /\ "event" \in DOMAIN f
                              /\ f.event = EVENT_STT_TASK_DONE
                              /\ f.data.id = tid)

\* C4: when the publish of an update that took a task from `pending` to `done` has
\* returned, every connection that was subscribed to the session at the update (and
\* is still subscribed, its socket open) has been sent exactly one stt.task.done
\* event for the task, carrying the transcript the update supplied.
C4_DoneReachesEverySubscriber ==
    (outcome.pc = "returned" /\ outcome.message.event = EVENT_STT_TASK_DONE) =>
        LET tid == outcome.message.data.id
        IN  status_log[tid] = <<"pending", "done">> =>
                \A ws \in outcome.startSet :
                    (ws \in Registered(ws_connections, outcome.sid) /\ conn[ws].alive)
                        => /\ Len(DoneFrames(inbox[ws], tid)) = 1
                           /\ DoneFrames(inbox[ws], tid)[1].data.transcript
                                  = stt_tasks_db[tid].transcript

\* C8: a task is created `pending`, its status is always one of pending, done and
\* failed, and once it is done or failed no step changes its status.
C8_TaskStatusChangesOnce ==
    /\ [](\A tid \in DOMAIN stt_tasks_db :
              stt_tasks_db[tid].status \in {"pending", "done", "failed"})
    /\ [][\A tid \in DOMAIN stt_tasks_db' :
              tid \notin DOMAIN stt_tasks_db => stt_tasks_db'[tid].status = "pending"]_vars
    /\ [][\A tid \in DOMAIN stt_tasks_db :
              stt_tasks_db[tid].status \in {"done", "failed"}
                  => stt_tasks_db'[tid].status = stt_tasks_db[tid].status]_vars

(***************************************************************************)
(* Claims about sessions, checked under SpecSessions.                      *)
(***************************************************************************)
\* C6: a session has a non-null ended_at if and only if its status is `ended`.
C6_EndedAtIffEnded ==
    \A sid \in DOMAIN sessions_db :
        ~IsNone(sessions_db[sid].ended_at) <=> sessions_db[sid].status = "ended"

\* C7: once a session's ended_at is set, no step clears it or moves it backwards;
\* a step that changes ended_at stamps it with the current time.
C7_EndedAtIsMonotonic ==
    [][\A sid \in DOMAIN sessions_db :
           /\ ~IsNone(sessions_db[sid].ended_at) =>
                  /\ ~IsNone(sessions_db'[sid].ended_at)
                  /\ Val(sessions_db'[sid].ended_at) >= Val(sessions_db[sid].ended_at)
           /\ sessions_db'[sid].ended_at # sessions_db[sid].ended_at =>
                  sessions_db'[sid].ended_at = Some(now)
      ]_vars

\* C7's case: a session that was ended, then re-ended at a later time, so that its
\* ended_at is later than both its start and an earlier stamp would have been, and
\* one that was reactivated after its end and still carries its ended_at.
C7_Witness ==
    \E a, b \in DOMAIN sessions_db :
        /\ sessions_db[a].status = "active"
        /\ ~IsNone(sessions_db[a].ended_at)
        /\ Val(sessions_db[a].ended_at) < now
        /\ sessions_db[b].status = "ended"
        /\ Val(sessions_db[b].ended_at) > Val(sessions_db[a].ended_at)

(***************************************************************************)
(* Claims about telemetry queries, checked under SpecTelemetry.            *)
(***************************************************************************)
\* C11: latest_telemetry(S, ch) answers not-found exactly when S has no sample on
\* ch; otherwise it answers a sample of S on ch that has the maximum timestamp and,
\* among the samples sharing that timestamp, was inserted last.
C11_LatestIsNewestThenLastInserted ==
    resp.op = "get_latest_telemetry" =>
        LET sid == resp.args[1]
            ch  == resp.args[2]
            idx == {i \in 1..Len(telemetry_db) :
                        telemetry_db[i].session_id = sid /\ telemetry_db[i].channel = ch}
        IN  IF idx = {} THEN resp.code = HTTP_NOT_FOUND
            ELSE /\ resp.code = HTTP_OK
                 /\ \E i \in idx :
                        /\ resp.body = telemetry_db[i]
                        /\ \A j \in idx :
                               \/ telemetry_db[j].timestamp.at < telemetry_db[i].timestamp.at
                               \/ /\ telemetry_db[j].timestamp.at = telemetry_db[i].timestamp.at
                                  /\ j <= i

(***************************************************************************)
(* Claims about the registry's shape and the confirmation, under SpecWs.   *)
(***************************************************************************)
\* C12: between the uninterrupted stretches of the endpoints and the publish passes,
\* no session id of the registry maps to an empty list.
C12_NoEmptyEntry ==
    \A sid \in DOMAIN ws_connections : ws_connections[sid] # <<>>

\* C12's case: a publish pass has just pruned the last connection of a session, whose
\* endpoint is still running, and the endpoint exit of another connection removed
\* the last connection of its session; neither session has an entry.
C12_Witness ==
    /\ outcome.pc = "returned"
    /\ \E ws \in Range(outcome.dead) :
           conn[ws].pc = "open" /\ conn[ws].sid \notin DOMAIN ws_connections
    /\ \E ws \in Conns :
           /\ conn[ws].pc = "closed" /\ inbox[ws] # <<>>
           /\ conn[ws].sid \notin DOMAIN ws_connections

\* The positions at which a websocket is listed under a session id.
Listings(ws) ==
    UNION {{<<sid, i>> : i \in {k \in 1..Len(ws_connections[sid]) :
                                    ws_connections[sid][k] = ws}} :
           sid \in DOMAIN ws_connections}

\* C13: a connection is listed in the registry at most once: under at most one
\* session id, and at most once in that session's list.
C13_ListedAtMostOnce ==
    \A ws \in Conns : Cardinality(Listings(ws)) <= 1

\* C13's case: two session ids have an entry, each listing a connection.
C13_Witness ==
    /\ Cardinality(DOMAIN ws_connections) = Cardinality(SessionIds)
    /\ \A ws \in Conns : Cardinality(Listings(ws)) = 1

\* The `connected` frames among the frames a client was sent.
ConnectedFrames(box) ==
    SelectSeq(box, LAMBDA f : "event" \in DOMAIN f /\ f.event = "connected")

\* C20: the step that accepts a connection for a session registers it under that
\* session and sends the `connected` confirmation on it and on no other
\* connection; no other step sends a confirmation, so an accepted connection has
\* been sent exactly one, the first frame it was sent, carrying its session id.
C20_OneConfirmationPerConnection ==
    /\ [](\A ws \in Conns :
              /\ Len(ConnectedFrames(inbox[ws])) = (IF inbox[ws] = <<>> THEN 0 ELSE 1)
              /\ conn[ws].pc = "open" => inbox[ws] # <<>>
              /\ inbox[ws] # <<>> => inbox[ws][1] = Connected(conn[ws].sid))
    /\ [][\A ws \in Conns :
              (conn[ws].pc = "new" /\ conn'[ws].pc = "open") =>
                  /\ conn'[ws].sid \in DOMAIN sessions_db
                  /\ ws \in Registered(ws_connections', conn'[ws].sid)
                  /\ inbox'[ws] = <<Connected(conn'[ws].sid)>>
                  /\ \A c \in Conns \ {ws} : inbox'[c] = inbox[c]
         ]_vars

\* C20's case: two connections accepted for the same session, both sent a broadcast
\* event after their confirmation.
C20_Witness ==
    \E a, b \in Conns :
        /\ a # b /\ conn[a].sid = conn[b].sid
        /\ Len(inbox[a]) > 1 /\ Len(inbox[b]) > 1

(***************************************************************************)
(* Claims about notes.                                                     *)
(***************************************************************************)
\* C16: list_notes answers exactly the notes of the session that satisfy every
\* supplied filter (speaker equal, type equal, timestamp >= from, timestamp <= to),
\* each once, in ascending order of timestamp.
C16_ListIsTheFilteredNotes ==
    (resp.op = "list_notes" /\ resp.code = HTTP_OK) =>
        LET sid       == resp.args[1]
            speaker   == resp.args[2]
            type      == resp.args[3]
            from_time == resp.args[4]
            to_time   == resp.args[5]
            expected  == {i \in DOMAIN notes_db :
                            /\ notes_db[i].session_id = sid
                            /\ ~IsNone(speaker) => notes_db[i].speaker = speaker
                            /\ ~IsNone(type) => notes_db[i].type = Val(type)
                            /\ ~IsNone(from_time) =>
                                   notes_db[i].timestamp.at >= Val(from_time).at
                            /\ ~IsNone(to_time) =>
                                   notes_db[i].timestamp.at <= Val(to_time).at}
        IN  /\ {resp.body[k].id : k \in 1..Len(resp.body)} = expected
            /\ Len(resp.body) = Cardinality(expected)
            /\ \A k \in 1..Len(resp.body) : resp.body[k] = notes_db[resp.body[k].id]
            /\ \A k \in 1..Len(resp.body) - 1 :
                   resp.body[k].timestamp.at <= resp.body[k + 1].timestamp.at

\* Note m is note n after an update u made at time t, as C17 has it: a supplied
\* field has the supplied value, everything else but updated_at is as it was.
UpdatedAsSupplied(n, m, u, t) ==
    /\ m.id = n.id /\ m.session_id = n.session_id /\ m.timestamp = n.timestamp
    /\ m.telemetry_snapshot = n.telemetry_snapshot /\ m.created_at = n.created_at
    /\ m.content = (IF IsNone(u.content) THEN n.content ELSE Val(u.content))
    /\ m.speaker = (IF IsNone(u.speaker) THEN n.speaker ELSE u.speaker)
    /\ m.type = (IF IsNone(u.type) THEN n.type ELSE Val(u.type))
    /\ m.tags = (IF IsNone(u.tags) THEN n.tags ELSE Val(u.tags))
    /\ m.updated_at = t

\* C17: a successful update_note changes, in the note it addresses, the supplied
\* fields and updated_at (set to the current time) and nothing else, whichever
\* fields are supplied, and leaves every other note as it was; every stored note
\* has updated_at >= created_at.
C17_UpdateChangesSuppliedFieldsOnly ==
    /\ [](\A id \in DOMAIN notes_db :
              /\ notes_db[id].updated_at >= notes_db[id].created_at
              /\ \A u \in NoteUpdates :
                     UpdatedAsSupplied(notes_db[id], note_after_update(notes_db[id], u),
                                       u, now))
    /\ [][(resp'.op = "update_note" /\ resp'.code = HTTP_OK) =>
              LET id == resp'.args[2]
              IN  /\ DOMAIN notes_db' = DOMAIN notes_db
                  /\ UpdatedAsSupplied(notes_db[id], notes_db'[id], resp'.args[3], now)
                  /\ \A other \in DOMAIN notes_db \ {id} :
                         notes_db'[other] = notes_db[other]
         ]_vars

\* C17's case: with two notes stored, an update made after the note's creation time
\* has supplied the content and left the speaker, type and tags unsupplied.
C17_Witness ==
    /\ resp.op = "update_note" /\ resp.code = HTTP_OK
    /\ Cardinality(DOMAIN notes_db) > 1
    /\ ~IsNone(resp.args[3].content) /\ IsNone(resp.args[3].tags)
    /\ resp.body.updated_at > resp.body.created_at

\* The ids of the notes that were stored and have been deleted.
Deleted == (1..notes_made) \ DOMAIN notes_db

\* C18: a successful delete_note removes the note it addresses and leaves every
\* other note as it was; a deleted note never comes back, get_note answers
\* not-found for it and list_notes does not hold it.  get_note, update_note and
\* delete_note addressed to an unknown note id, or through a session that is not
\* the note's, answer not-found, leave the note store as it was and call no
\* broadcast.
C18_DeletedNotesAreGone ==
    /\ []((resp.op = "get_note" /\ resp.args[2] \in Deleted)
              => resp.code = HTTP_NOT_FOUND)
    /\ []((resp.op = "list_notes" /\ resp.code = HTTP_OK)
              => \A k \in 1..Len(resp.body) : resp.body[k].id \notin Deleted)
    /\ [][\A id \in Deleted : id \notin DOMAIN notes_db']_vars
    /\ [][(resp'.op = "delete_note" /\ resp'.code = HTTP_OK) =>
              /\ resp'.args[2] \in DOMAIN notes_db
              /\ notes_db' = DictDel(notes_db, resp'.args[2])]_vars
    /\ [][(/\ resp'.op \in {"get_note", "update_note", "delete_note"}
           /\ \/ resp'.args[2] \notin DOMAIN notes_db
              \/ notes_db[resp'.args[2]].session_id # resp'.args[1]) =>
              /\ resp'.code = HTTP_NOT_FOUND
              /\ notes_db' = notes_db
              /\ outcome' = IdlePass
              /\ UNCHANGED <<ws_connections, inbox, pass>>]_vars

\* C18's case: after a note was deleted, list_notes answers the note that is left
\* in the session.
C18_Witness ==
    /\ resp.op = "list_notes" /\ resp.code = HTTP_OK
    /\ Deleted # {}
    /\ Len(resp.body) > 0

\* C19: an update_stt_task that sets the status `failed` calls broadcast once, for
\* the task's session, with an `error.occurred` event whose data holds the source
\* `stt` and the supplied error text, or the default message when no error is
\* supplied; it publishes no `stt.task.done` event.
C19_FailedPublishesSuppliedError ==
    [][(/\ resp'.op = "update_stt_task" /\ resp'.code = HTTP_OK
        /\ resp'.args[3].status = "failed") =>
           LET sid    == resp'.args[1]
               update == resp'.args[3]
               text   == IF IsNone(update.error) THEN STT_DEFAULT_ERROR
                         ELSE Val(update.error)
           IN  /\ stt_tasks_db[resp'.args[2]].session_id = sid
               /\ outcome'.sid = sid
               /\ outcome'.message =
                      Envelope(sid, EVENT_ERROR_OCCURRED,
                               [message |-> text, source |-> "stt"])
      ]_vars

NoteEvents == {EVENT_NOTE_CREATED, EVENT_NOTE_UPDATED, EVENT_NOTE_DELETED}

\* The step makes exactly one call of broadcast(), with this message: the call
\* either ends within the step, or is suspended in a slot that was idle.
OneBroadcast(message) ==
    \/ /\ outcome'.pc # "idle" /\ outcome'.message = message
       /\ pass' = pass
    \/ /\ outcome' = IdlePass
       /\ \E p \in Passes :
              /\ pass[p].pc = "idle" /\ pass'[p].pc = "sending"
              /\ pass'[p].message = message
              /\ \A q \in Passes \ {p} : pass'[q] = pass[q]

\* C14: a successful create_note, update_note or delete_note on session S has, in
\* the step that calls broadcast(), already applied its change to the note store,
\* and calls broadcast() exactly once, with the event of the operation, session S
\* and the stored note (the note id for a deletion); no broadcast() starts in any
\* other step; every send_text of a pass goes to a connection then registered
\* under the pass's session and under no other session, and writes the pass's
\* message to that connection's socket only, when the note of the message has
\* been stored, or is gone from the store if the event is `note.deleted`.
C14_NoteChangeThenOneEvent ==
    /\ [][(resp'.code = HTTP_OK /\ resp'.op = "create_note") =>
              LET id == resp'.body.id
              IN  /\ id \in DOMAIN notes_db' \ DOMAIN notes_db
                  /\ notes_db'[id].session_id = resp'.args[1]
                  /\ OneBroadcast(Envelope(resp'.args[1], EVENT_NOTE_CREATED,
                                           notes_db'[id]))]_vars
    /\ [][(resp'.code = HTTP_OK /\ resp'.op = "update_note") =>
              LET id == resp'.args[2]
              IN  /\ id \in DOMAIN notes_db'
                  /\ notes_db'[id] = note_after_update(notes_db[id], resp'.args[3])
                  /\ OneBroadcast(Envelope(resp'.args[1], EVENT_NOTE_UPDATED,
                                           notes_db'[id]))]_vars
    /\ [][(resp'.code = HTTP_OK /\ resp'.op = "delete_note") =>
              LET id == resp'.args[2]
              IN  /\ id \in DOMAIN notes_db \ DOMAIN notes_db'
                  /\ OneBroadcast(Envelope(resp'.args[1], EVENT_NOTE_DELETED,
                                           [id |-> id]))]_vars
    /\ [][(\/ \E p \in Passes : pass[p].pc = "idle" /\ pass'[p].pc # "idle"
           \/ (outcome'.pc # "idle" /\ pass' = pass))
          => /\ resp'.code = HTTP_OK
             /\ resp'.op \in {"create_note", "update_note", "delete_note"}]_vars
    /\ [][\A p \in Passes : SendCalled(p) =>
              LET ws == pass'[p].cur
                  S  == pass'[p].sid
              IN  /\ pass'[p].message.event \in NoteEvents
                  /\ pass'[p].message.session_id = S
                  /\ ws \in Registered(ws_connections, S)
                  /\ \A T \in DOMAIN ws_connections \ {S} :
                         ws \notin Registered(ws_connections, T)
                  /\ (conn[ws].alive
                         => inbox'[ws] = Append(inbox[ws], pass'[p].message))
                  /\ \A other \in Conns \ {ws} : inbox'[other] = inbox[other]
                  /\ pass'[p].message.data.id \in 1..notes_made'
                  /\ (pass'[p].message.event = EVENT_NOTE_DELETED
                         => pass'[p].message.data.id \notin DOMAIN notes_db')]_vars

\* C14's case: a note was created in a session while one connection was registered
\* under it and another under the other session; the first has been sent the
\* `note.created` event holding the stored note, the second nothing but its
\* confirmation.
C14_Witness ==
    /\ resp.op = "create_note" /\ resp.code = HTTP_OK
    /\ \E ws, other \in Conns :
           /\ ws \in Registered(ws_connections, resp.args[1])
           /\ \E T \in DOMAIN ws_connections \ {resp.args[1]} :
                  other \in Registered(ws_connections, T)
           /\ Len(inbox[ws]) = 2
           /\ inbox[ws][2] = Envelope(resp.args[1], EVENT_NOTE_CREATED,
                                      notes_db[resp.body.id])
           /\ Len(inbox[other]) = 1

\* The note, telemetry and STT-task operations: their first argument is the
\* session id of the path.
SessionOps == {"create_note", "list_notes", "export_notes", "get_note", "update_note",
               "delete_note", "create_telemetry", "create_telemetry_batch",
               "list_telemetry", "get_latest_telemetry", "list_channels",
               "create_stt_task", "list_stt_tasks", "get_stt_task", "update_stt_task"}

\* C15: a note, telemetry or STT-task operation called with the id of a session
\* that does not exist answers not-found, leaves the session, note, telemetry and
\* task stores and the registry as they were, calls no broadcast() and sends no
\* frame.
C15_MissingSessionIsNotFound ==
    [][(resp'.op \in SessionOps /\ resp'.args[1] \notin DOMAIN sessions_db) =>
           /\ resp'.code = HTTP_NOT_FOUND
           /\ UNCHANGED <<sessions_db, notes_db, notes_made, telemetry_db, stt_tasks_db,
                          ws_connections>>
           /\ outcome' = IdlePass
           /\ UNCHANGED <<pass, inbox>>
      ]_vars

\* C15's case: create_stt_task was called for a session that does not exist,
\* while another session exists and has a subscriber.
C15_Witness ==
    /\ resp.op = "create_stt_task" /\ resp.code = HTTP_NOT_FOUND
    /\ resp.args[1] \notin DOMAIN sessions_db
    /\ sessions_db # <<>>
    /\ ws_connections # <<>>

\* C21: a connection leaves the registry only in the step in which its own endpoint
\* exits, or in the step in which a broadcast() returns that has the connection
\* among its dead connections (its send raised); so a connection whose endpoint is
\* open and whose socket takes every frame is registered under its session.
C21_LeavesOnlyByExitOrFailedSend ==
    /\ [][\A ws \in Conns :
              (ws \in AllRegistered /\ ws \notin AllRegistered') =>
                  \/ conn[ws].pc = "open" /\ conn'[ws].pc = "closed"
                  \/ outcome'.pc = "returned" /\ ws \in Range(outcome'.dead)]_vars
    /\ [](\A ws \in Conns :
              (conn[ws].pc = "open" /\ conn[ws].alive)
                  => ws \in Registered(ws_connections, conn[ws].sid))

\* C21's case: a connection with an open endpoint has been sent an event and is
\* registered, after another connection of its session had a send raise and was
\* pruned by the pass.
C21_Witness ==
    \E ws, other \in Conns :
        /\ conn[ws].pc = "open" /\ conn[ws].alive
        /\ ws \in Registered(ws_connections, conn[ws].sid)
        /\ Len(inbox[ws]) = 2
        /\ other \in pruned /\ conn[other].sid = conn[ws].sid
        /\ outcome.pc = "returned" /\ other \in Range(outcome.dead)

\* C22: telemetry is append-only: in every step the samples stored before the step
\* are, unchanged and in the same order, the first samples of the store after it.
C22_TelemetryIsAppendOnly ==
    [][/\ Len(telemetry_db') >= Len(telemetry_db)
       /\ SubSeq(telemetry_db', 1, Len(telemetry_db)) = telemetry_db]_vars

\* C22's case: a batch of two samples was appended after a sample of another
\* session.
C22_Witness ==
    /\ resp.op = "create_telemetry_batch" /\ resp.code = HTTP_OK
    /\ Len(telemetry_db) = 3
    /\ telemetry_db[1].session_id # telemetry_db[2].session_id
    /\ resp.body.created = 2

\* The positions in the store of the samples of session sid that satisfy every
\* supplied filter.
TelemetryMatches(sid, channel, from_time, to_time) ==
    {k \in 1..Len(telemetry_db) :
        /\ telemetry_db[k].session_id = sid
        /\ IsNone(channel) \/ telemetry_db[k].channel = Val(channel)
        /\ IsNone(from_time) \/ telemetry_db[k].timestamp.at >= Val(from_time).at
        /\ IsNone(to_time) \/ telemetry_db[k].timestamp.at <= Val(to_time).at}

\* C23: what list_telemetry answers for an existing session are samples of the
\* session that satisfy every supplied filter, each at most once, in descending
\* timestamp order; their number is the number of matches or, if that is smaller,
\* the limit (none for a zero or negative limit); no match left out has a later
\* timestamp than a sample of the answer.
C23_QueryIsTruncatedToLimit ==
    (resp.op = "list_telemetry" /\ resp.code = HTTP_OK) =>
        LET matches == TelemetryMatches(resp.args[1], resp.args[2], resp.args[3],
                                        resp.args[4])
            limit   == IF resp.args[5] < 0 THEN 0 ELSE resp.args[5]
            body    == resp.body
            held    == {k \in matches : \E i \in 1..Len(body) : body[i] = telemetry_db[k]}
        IN  /\ \A i \in 1..Len(body) : \E k \in matches : body[i] = telemetry_db[k]
            /\ \A i, j \in 1..Len(body) : i # j => body[i].id # body[j].id
            /\ \A i, j \in 1..Len(body) :
                   i < j => body[i].timestamp.at >= body[j].timestamp.at
            /\ Len(body) = (IF Cardinality(matches) < limit THEN Cardinality(matches)
                            ELSE limit)
            /\ \A k \in matches \ held : \A i \in 1..Len(body) :
                   body[i].timestamp.at >= telemetry_db[k].timestamp.at

QueryOps == {"list_sessions", "get_session_by_id", "list_notes", "get_note",
             "export_notes", "list_telemetry", "get_latest_telemetry", "list_channels",
             "list_stt_tasks", "get_stt_task"}

\* C24: a step of a query operation leaves the session, note, telemetry and task
\* stores and the registry as they were, calls no broadcast() and sends no frame;
\* and a telemetry query made again with the same arguments, in the state the
\* query left, is given the answer the query was given.
C24_QueriesChangeNothing ==
    /\ [][resp'.op \in QueryOps =>
              /\ UNCHANGED <<sessions_db, notes_db, notes_made, telemetry_db,
                             stt_tasks_db, ws_connections, pass, inbox>>
              /\ outcome' = IdlePass]_vars
    /\ [](resp.op = "list_telemetry" =>
              resp = list_telemetry_answer(resp.args[1], resp.args[2], resp.args[3],
                                           resp.args[4], resp.args[5]))
    /\ [](resp.op = "get_latest_telemetry" =>
              resp = latest_telemetry(resp.args[1], resp.args[2]))

\* C24's case: list_telemetry has answered a sample of a session whose store holds
\* several, while a client is subscribed.
C24_Witness ==
    /\ resp.op = "list_telemetry" /\ resp.code = HTTP_OK
    /\ Len(resp.body) > 0
    /\ Len(telemetry_db) > 1
    /\ ws_connections # <<>>

\* C25: after a successful update_stt_task the task's transcript and error are the
\* supplied values where the update supplies them and the previous values where it
\* does not, and updated_at is the time of the update.
C25_UnsuppliedTaskFieldsAreKept ==
    [][(resp'.op = "update_stt_task" /\ resp'.code = HTTP_OK) =>
           LET tid    == resp'.args[2]
               update == resp'.args[3]
               old    == stt_tasks_db[tid]
               new    == stt_tasks_db'[tid]
           IN  /\ new.transcript = (IF IsNone(update.transcript) THEN old.transcript
                                    ELSE update.transcript)
               /\ new.error = (IF IsNone(update.error) THEN old.error ELSE update.error)
               /\ new.updated_at = now
      ]_vars

\* C26: the message of a broadcast() call is fixed when the call starts: it is the
\* same at every suspension of the call, every send_text of the call writes it to
\* the socket, and a frame that was sent stays as it was sent, whatever is done to
\* the record meanwhile.
C26_OneEnvelopePerPass ==
    /\ [][\A p \in Passes :
              (pass[p].pc = "sending" /\ pass'[p].pc = "sending") =>
                  /\ pass'[p].message = pass[p].message
                  /\ pass'[p].sid = pass[p].sid]_vars
    /\ [][\A p \in Passes :
              (pass[p].pc = "sending" /\ SendCalled(p) /\ conn[pass'[p].cur].alive) =>
                  inbox'[pass'[p].cur] = Append(inbox[pass'[p].cur], pass[p].message)]_vars
    /\ [][\A ws \in Conns :
              /\ Len(inbox'[ws]) >= Len(inbox[ws])
              /\ SubSeq(inbox'[ws], 1, Len(inbox[ws])) = inbox[ws]]_vars

\* C26's case: a pass that started when a note was created is sending its second
\* recipient the `note.created` message of its start, after the note was updated.
C26_Witness ==
    \E p \in Passes :
        /\ pass[p].pc = "sending" /\ pass[p].idx = 2
        /\ pass[p].message.event = EVENT_NOTE_CREATED
        /\ pass[p].message.data.id \in DOMAIN notes_db
        /\ notes_db[pass[p].message.data.id] # pass[p].message.data
        /\ inbox[pass[p].cur] # <<>>
        /\ inbox[pass[p].cur][Len(inbox[pass[p].cur])] = pass[p].message

\* C30: a note is created before it is updated or deleted, so no connection is sent
\* the `note.updated` or `note.deleted` event of a note before the `note.created`
\* event of that note.
C30_EventsFollowMutationOrder ==
    \A ws \in Conns : \A i, j \in 1..Len(inbox[ws]) :
        ~ /\ i < j
          /\ inbox[ws][i].event \in {EVENT_NOTE_UPDATED, EVENT_NOTE_DELETED}
          /\ inbox[ws][j].event = EVENT_NOTE_CREATED
          /\ inbox[ws][i].data.id = inbox[ws][j].data.id

\* C27: a step in which the endpoint of an open connection receives `ping` writes
\* one `pong` to that connection's socket and to no other; a step in which it
\* receives any other text writes nothing; neither changes a store, the registry
\* or a running broadcast().
C27_PingIsAnsweredWithOnePong ==
    [][\A ws \in Conns, data \in PingInbound :
           ws_receive(ws, data) =>
               /\ inbox' = (IF data = "ping" THEN [inbox EXCEPT ![ws] = Append(@, Pong)]
                            ELSE inbox)
               /\ UNCHANGED <<sessions_db, notes_db, telemetry_db, stt_tasks_db,
                              ws_connections, pass, conn>>
               /\ outcome' = IdlePass
      ]_vars

\* C27's case: of two connections open on the same session, one has sent `ping`
\* and has been sent `pong`, the other has been sent its confirmation only.
C27_Witness ==
    \E ws, other \in Conns :
        /\ ws # other
        /\ conn[ws].pc = "open" /\ conn[other].pc = "open"
        /\ conn[ws].sid = conn[other].sid
        /\ Len(inbox[ws]) = 2 /\ inbox[ws][2] = Pong
        /\ Len(inbox[other]) = 1

\* C28: create_telemetry_batch for an existing session appends to the store one
\* sample per element of the batch, in the order of the batch, each owned by the
\* session and holding the element's channel, value, unit and timestamp, and
\* answers the length of the batch; for a missing session it answers not-found
\* and appends nothing.
C28_BatchAppendsInOrder ==
    [][resp'.op = "create_telemetry_batch" =>
           LET sid   == resp'.args[1]
               batch == resp'.args[2]
               n     == Len(telemetry_db)
           IN  IF sid \in DOMAIN sessions_db
               THEN /\ resp'.code = HTTP_OK
                    /\ resp'.body.created = Len(batch)
                    /\ Len(telemetry_db') = n + Len(batch)
                    /\ SubSeq(telemetry_db', 1, n) = telemetry_db
                    /\ \A k \in 1..Len(batch) :
                           /\ telemetry_db'[n + k].session_id = sid
                           /\ telemetry_db'[n + k].channel = batch[k].channel
                           /\ telemetry_db'[n + k].value = batch[k].value
                           /\ telemetry_db'[n + k].unit = batch[k].unit
                           /\ telemetry_db'[n + k].timestamp.at = batch[k].timestamp.at
               ELSE /\ resp'.code = HTTP_NOT_FOUND
                    /\ telemetry_db' = telemetry_db
      ]_vars

\* C28's case: a batch of two different samples was stored behind a sample that
\* was there before.
C28_Witness ==
    /\ resp.op = "create_telemetry_batch" /\ resp.code = HTTP_OK
    /\ Len(resp.args[2]) = 2 /\ resp.args[2][1] # resp.args[2][2]
    /\ Len(telemetry_db) = 3
    /\ telemetry_db[2].timestamp.at # telemetry_db[3].timestamp.at

\* C29: in every state the owning session of every stored note, telemetry sample
\* and STT task, and every key of the registry, is the id of a stored session; and
\* no step removes a session or changes the owning session of a stored note,
\* sample or task.
C29_OwnersExist ==
    /\ [](/\ \A id \in DOMAIN notes_db : notes_db[id].session_id \in DOMAIN sessions_db
          /\ \A k \in 1..Len(telemetry_db) :
                 telemetry_db[k].session_id \in DOMAIN sessions_db
          /\ \A tid \in DOMAIN stt_tasks_db :
                 stt_tasks_db[tid].session_id \in DOMAIN sessions_db
          /\ DOMAIN ws_connections \subseteq DOMAIN sessions_db)
    /\ [][/\ DOMAIN sessions_db \subseteq DOMAIN sessions_db'
          /\ \A sid \in DOMAIN sessions_db : sessions_db'[sid].id = sessions_db[sid].id
          /\ \A id \in DOMAIN notes_db \cap DOMAIN notes_db' :
                 notes_db'[id].session_id = notes_db[id].session_id
          /\ \A k \in 1..Len(telemetry_db) :
                 /\ k <= Len(telemetry_db')
                 /\ telemetry_db'[k].session_id = telemetry_db[k].session_id
          /\ \A tid \in DOMAIN stt_tasks_db :
                 /\ tid \in DOMAIN stt_tasks_db'
                 /\ stt_tasks_db'[tid].session_id = stt_tasks_db[tid].session_id]_vars

\* C29's case: two sessions exist; a note, a sample and a task are stored and a
\* client is subscribed.
C29_Witness ==
    /\ Cardinality(DOMAIN sessions_db) = 2
    /\ notes_db # <<>> /\ telemetry_db # <<>> /\ stt_tasks_db # <<>>
    /\ ws_connections # <<>>

(***************************************************************************)
(* Claims about the interleaving of endpoints and publish passes.          *)
(***************************************************************************)
\* C31: the `connected` confirmation is the first frame an accepted connection is
\* sent.  The step that lists a websocket in the registry also writes its
\* confirmation, and every send_text a publish pass calls, concurrent passes
\* included, is on a listed websocket whose socket already holds the confirmation
\* as its first frame, so the event goes behind it.
C31_ConfirmationBeforeAnyEvent ==
    [][/\ \A ws \in Conns :
              (ws \notin AllRegistered /\ ws \in AllRegistered') =>
                  /\ inbox[ws] = <<>>
                  /\ inbox'[ws] = <<Connected(conn'[ws].sid)>>
       /\ \A p \in Passes :
              SendCalled(p) =>
                  LET ws == pass'[p].cur
                  IN  /\ ws \in Registered(ws_connections, pass'[p].sid)
                      /\ inbox[ws] # <<>>
                      /\ Head(inbox[ws]) = Connected(pass'[p].sid)
                      /\ \A k \in 1..Len(inbox[ws]) : inbox'[ws][k] = inbox[ws][k]
      ]_vars

\* C31's case: a websocket was registered while a publish pass for its session was
\* suspended, and that pass then sent it the event, behind its confirmation.
C31_Witness ==
    \E p \in Passes :
        /\ pass[p].pc = "sending"
        /\ pass[p].cur \notin pass[p].startSet
        /\ inbox[pass[p].cur] = <<Connected(pass[p].sid), pass[p].message>>

\* The websockets on which broadcast() slot p has awaited a send_text that ended,
\* by returning or by raising.
SentTo(ps) == ps.got \cup Range(ps.dead)

\* C32: a single call of broadcast() calls send_text at most once on any given
\* websocket: every send_text it calls is on a websocket on which that call has
\* not sent before, whatever the endpoints and the other passes appended to or
\* removed from the session's list while it was suspended; so no websocket is
\* twice among its dead connections, or both dead and served.
C32_AtMostOneSendPerPass ==
    /\ [][\A p \in Passes :
              SendCalled(p) =>
                  /\ pass'[p].cur \notin SentTo(pass'[p])
                  /\ pass[p].pc = "sending" =>
                         /\ pass[p].sid = pass'[p].sid
                         /\ pass'[p].cur # pass[p].cur
                         /\ SentTo(pass'[p]) = SentTo(pass[p]) \cup {pass[p].cur}
         ]_vars
    /\ [](\A p \in Passes :
              /\ Len(pass[p].dead) = Cardinality(Range(pass[p].dead))
              /\ pass[p].got \cap Range(pass[p].dead) = {})

\* C32's case: a pass sent to a websocket, a second websocket was appended to the
\* list while it was suspended and the first one was removed; the pass is now
\* suspended in its send to the second.
C32_Witness ==
    \E p \in Passes :
        /\ pass[p].pc = "sending"
        /\ pass[p].got # {}
        /\ pass[p].cur \notin pass[p].startSet
        /\ pass[p].startSet \ Registered(ws_connections, pass[p].sid) # {}

=============================================================================
